---- MODULE Spec2Model ----
(***************************************************************************)
(* Model of pi-media-player: the GPIO button dispatcher                    *)
(* (media_player_service.py) and the USB ingest watcher                    *)
(* (usb_copy_service.py).  The two programs are independent processes;     *)
(* each has its own specification over its own variables.                  *)
(***************************************************************************)
EXTENDS Integers, Sequences, FiniteSets, TLC

VARIABLES
    pc,            \* dispatcher: position in main()
    media_player,  \* dispatcher: the local variable media_player (Unbound before line 58)
    gpio,          \* dispatcher: state of the GPIO subsystem
    scanPos,       \* dispatcher: index into PinOrder of the next pin to read
    passes,        \* dispatcher: completed scan passes
    entered,       \* dispatcher: "Starting main loop" was reached
    initFailed,    \* dispatcher: setup_gpio or setup_media_player raised
    exitError,     \* dispatcher: exception that escapes main(), if any
    last,          \* dispatcher: what the most recent step did
    passLog,       \* dispatcher: the reads made so far in the current scan pass
    watch,         \* dispatcher: the input whose presses are counted
    held,          \* dispatcher: consecutive passes in which watch was read LOW
    fired,         \* dispatcher: dispatches made for watch during those passes
    debounced,     \* dispatcher: debounce sleeps made for watch during those passes
    idleSleeps,    \* dispatcher: idle sleeps made so far
    upc,           \* watcher: position in main()
    vol,           \* watcher: content of each mount point
    devices,       \* watcher: context.list_devices(...) at startup
    scanIdx,       \* watcher: index of the next listed device
    nEvents,       \* watcher: events consumed from monitor.poll
    dest,          \* watcher: content of DEST_DIR
    scanLog,       \* watcher: the copy_files calls made by the startup scan
    copiedOk,      \* watcher: mount points whose copy_files call completed without error
    ulast,         \* watcher: what the most recent step did
    cpc,           \* copy_files alone: "ready" or "returned"
    cSrc,          \* copy_files alone: source directory
    cDst,          \* copy_files alone: destination before the call
    cOut,          \* copy_files alone: destination after the call
    cRes           \* copy_files alone: outcome of the call

dvars == <<pc, media_player, gpio, scanPos, passes, entered, initFailed, exitError, last,
          passLog, watch, held, fired, debounced, idleSleeps>>
uvars == <<upc, vol, devices, scanIdx, nEvents, dest, scanLog, copiedOk, ulast>>
cvars == <<cpc, cSrc, cDst, cOut, cRes>>
vars == <<dvars, uvars, cvars>>

\* ---------------------------------------------------------------- bounds
MaxPasses == 2

\* ------------------------------------------------- button dispatcher data
PinOrder == <<13, 19, 26, 21, 20, 16>>

Pins == {PinOrder[i] : i \in 1..Len(PinOrder)}

BUTTON_PINS ==
    [p \in Pins |->
        CASE p = 13 -> "/home/pi/Videos/1.mp4"
          [] p = 19 -> "/home/pi/Videos/2.mp4"
          [] p = 26 -> "/home/pi/Videos/3.mp4"
          [] p = 21 -> "/home/pi/Videos/4.mp4"
          [] p = 20 -> "pause"
          [] p = 16 -> "stop"]

Unbound == [status |-> "unbound", media |-> "", fullscreen |-> FALSE]

NoMedia == ""

Call(fn, arg) == [fn |-> fn, arg |-> arg]

\* vlc.MediaPlayer() followed by toggle_fullscreen()
NewPlayer == [status |-> "idle", media |-> NoMedia, fullscreen |-> TRUE]

\* effect of one player call on the player handle
PlayerStop(p) == [p EXCEPT !.status = "idle"]

PlayerSetMedia(p, fname) == [p EXCEPT !.media = fname]

PlayerPlay(p) == [p EXCEPT !.status = IF p.media = NoMedia THEN p.status ELSE "playing"]

\* libvlc's pause() toggles: it pauses a playing player and resumes a paused one
PlayerPause(p) ==
    [p EXCEPT !.status = CASE p.status = "playing" -> "paused"
                           [] p.status = "paused" -> "playing"
                           [] OTHER -> p.status]

\* play_video with the media loaded before the player is stopped
play_video_loadFirst(player, fname, failAt) ==
    [player |-> IF failAt = 0 THEN PlayerPlay(PlayerStop(PlayerSetMedia(player, fname)))
                ELSE player,
     calls |-> IF failAt = 0
               THEN <<Call("set_media", fname), Call("stop", ""), Call("play", "")>>
               ELSE <<Call("set_media", fname)>>,
     failed |-> failAt # 0, logged |-> IF failAt = 0 THEN "info" ELSE "error",
     raised |-> FALSE]

\* play_video(player, fname); failAt names the statement of the try body that
\* raises (0: none, 1: stop, 2: vlc.Media, 3: set_media, 4: play).  A call that
\* raises is recorded as made and leaves the player as it was.
play_video(player, fname, failAt) ==
    LET c1 == <<Call("stop", "")>>
        p1 == IF failAt = 1 THEN player ELSE PlayerStop(player)
        c3 == IF failAt \in {1, 2} THEN c1 ELSE c1 \o <<Call("set_media", fname)>>
        p3 == IF failAt \in {1, 2, 3} THEN p1 ELSE PlayerSetMedia(p1, fname)
        c4 == IF failAt \in {1, 2, 3} THEN c3 ELSE c3 \o <<Call("play", "")>>
        p4 == IF failAt \in {1, 2, 3, 4} THEN p3 ELSE PlayerPlay(p3)
    IN  [player |-> p4, calls |-> c4, failed |-> failAt # 0,
         logged |-> IF failAt = 0 THEN "info" ELSE "error", raised |-> FALSE]

\* the dispatch with a stop branch that never matches: "stop" falls through to
\* play_video as if it were a path
Dispatch_stopAsPath(player, action, failAt) ==
    IF action = "pause"
    THEN [player |-> IF failAt = 0 THEN PlayerPause(player) ELSE player,
          calls |-> <<Call("pause", "")>>, failed |-> failAt # 0,
          logged |-> IF failAt = 0 THEN "info" ELSE "none", raised |-> failAt # 0]
    ELSE play_video(player, action, failAt)

\* the dispatch with the pause and stop branches exchanged
Dispatch_swapped(player, action, failAt) ==
    IF action = "stop"
    THEN [player |-> IF failAt = 0 THEN PlayerPause(player) ELSE player,
          calls |-> <<Call("pause", "")>>, failed |-> failAt # 0,
          logged |-> IF failAt = 0 THEN "info" ELSE "none", raised |-> failAt # 0]
    ELSE IF action = "pause"
    THEN [player |-> IF failAt = 0 THEN PlayerStop(player) ELSE player,
          calls |-> <<Call("stop", "")>>, failed |-> failAt # 0,
          logged |-> IF failAt = 0 THEN "info" ELSE "none", raised |-> failAt # 0]
    ELSE play_video(player, action, failAt)

\* the if/elif/else of the main loop for one pressed pin
Dispatch(player, action, failAt) ==
    IF action = "pause"
    THEN [player |-> IF failAt = 0 THEN PlayerPause(player) ELSE player,
          calls |-> <<Call("pause", "")>>, failed |-> failAt # 0,
          logged |-> IF failAt = 0 THEN "info" ELSE "none", raised |-> failAt # 0]
    ELSE IF action = "stop"
    THEN [player |-> IF failAt = 0 THEN PlayerStop(player) ELSE player,
          calls |-> <<Call("stop", "")>>, failed |-> failAt # 0,
          logged |-> IF failAt = 0 THEN "info" ELSE "none", raised |-> failAt # 0]
    ELSE play_video(player, action, failAt)

\* the statements of an action that can raise
FailPoints(action) == IF action \in {"pause", "stop"} THEN 0..1 ELSE 0..4

ActionKind(action) == IF action \in {"pause", "stop"} THEN action ELSE "play_video"

Step(op) == [op |-> op, pin |-> 0, level |-> "none", action |-> "none", arg |-> "",
             calls |-> <<>>, failed |-> FALSE, logged |-> "none", slept |-> "none",
             before |-> "none", beforeMedia |-> ""]

\* a for loop that a dispatch ends (a break after the debounce sleep)
NextPos_break(pos, dispatched) == IF dispatched THEN Len(PinOrder) + 1 ELSE pos + 1

\* the position of the for loop after the pin at pos has been handled: the
\* loop goes on to the next pin whether or not an action was dispatched
NextPos(pos, dispatched) == pos + 1

\* setup_gpio(): configure every pin, or log and re-raise into main's except
SetupGpio ==
    /\ pc = "setup_gpio"
    /\ \E ok \in BOOLEAN :
        IF ok
        THEN /\ gpio' = [gpio EXCEPT !.configured = TRUE]
             /\ pc' = "setup_player"
             /\ initFailed' = initFailed
             /\ last' = [Step("setup_gpio") EXCEPT !.logged = "info"]
        ELSE /\ gpio' = gpio
             /\ pc' = "finally"
             /\ initFailed' = TRUE
             /\ last' = [Step("setup_gpio") EXCEPT !.failed = TRUE, !.logged = "error"]
    /\ UNCHANGED <<media_player, scanPos, passes, entered, exitError>>
    /\ UNCHANGED <<passLog, watch, held, fired, debounced, idleSleeps>>
    /\ UNCHANGED <<uvars, cvars>>

\* setup_media_player() and the assignment to media_player; then the loop starts
SetupMediaPlayer ==
    /\ pc = "setup_player"
    /\ \E ok \in BOOLEAN :
        IF ok
        THEN /\ media_player' = NewPlayer
             /\ pc' = "loop"
             /\ entered' = TRUE
             /\ initFailed' = initFailed
             /\ last' = [Step("setup_player") EXCEPT !.logged = "info"]
        ELSE /\ media_player' = media_player
             /\ pc' = "finally"
             /\ entered' = entered
             /\ initFailed' = TRUE
             /\ last' = [Step("setup_player") EXCEPT !.failed = TRUE, !.logged = "error"]
    /\ UNCHANGED <<gpio, scanPos, passes, exitError>>
    /\ UNCHANGED <<passLog, watch, held, fired, debounced, idleSleeps>>
    /\ UNCHANGED <<uvars, cvars>>

\* one iteration of the for loop: read the pin, dispatch if low, debounce
ReadPin ==
    /\ pc = "loop"
    /\ scanPos <= Len(PinOrder)
    /\ LET pin == PinOrder[scanPos]
           action == BUTTON_PINS[pin]
           base == [Step("read") EXCEPT !.pin = pin, !.before = media_player.status,
                                        !.beforeMedia = media_player.media]
       IN \E level \in {"LOW", "HIGH", "error"} :
            CASE level = "error" ->
                    \* GPIO.input raises: caught by except Exception at line 77
                    /\ pc' = "finally"
                    /\ last' = [base EXCEPT !.level = level, !.failed = TRUE, !.logged = "error"]
                    /\ UNCHANGED <<media_player, scanPos, passLog, held, fired, debounced>>
              [] level = "HIGH" ->
                    /\ pc' = pc
                    /\ scanPos' = NextPos(scanPos, FALSE)
                    /\ last' = [base EXCEPT !.level = level]
                    /\ passLog' = Append(passLog, [pin |-> pin, level |-> level,
                                                   action |-> "none", slept |-> "none"])
                    /\ held' = IF pin = watch THEN 0 ELSE held
                    /\ fired' = IF pin = watch THEN 0 ELSE fired
                    /\ debounced' = IF pin = watch THEN 0 ELSE debounced
                    /\ UNCHANGED media_player
              [] level = "LOW" ->
                    \E failAt \in FailPoints(action) :
                        LET r == Dispatch(media_player, action, failAt) IN
                        /\ media_player' = r.player
                        /\ pc' = IF r.raised THEN "finally" ELSE pc
                        /\ scanPos' = IF r.raised THEN scanPos ELSE NextPos(scanPos, TRUE)
                        /\ passLog' = Append(passLog,
                                [pin |-> pin, level |-> level, action |-> action,
                                 slept |-> IF r.raised THEN "none" ELSE "debounce"])
                        /\ held' = IF pin = watch THEN held + 1 ELSE held
                        /\ fired' = IF pin = watch THEN fired + 1 ELSE fired
                        /\ debounced' = IF pin = watch /\ ~r.raised
                                        THEN debounced + 1 ELSE debounced
                        /\ last' = [base EXCEPT !.level = level,
                                                !.action = ActionKind(action),
                                                !.arg = IF ActionKind(action) = "play_video"
                                                        THEN action ELSE "",
                                                !.calls = r.calls,
                                                !.failed = r.failed,
                                                !.logged = IF r.raised THEN "error" ELSE r.logged,
                                                !.slept = IF r.raised THEN "none" ELSE "debounce"]
    /\ UNCHANGED <<gpio, passes, entered, initFailed, exitError, idleSleeps, watch>>
    /\ UNCHANGED <<uvars, cvars>>

\* time.sleep(0.01) after the for loop, then the next pass
IdleSleep ==
    /\ pc = "loop"
    /\ scanPos = Len(PinOrder) + 1
    /\ passes < MaxPasses
    /\ scanPos' = 1
    /\ passes' = passes + 1
    /\ last' = [Step("idle") EXCEPT !.slept = "idle"]
    /\ passLog' = <<>>
    /\ idleSleeps' = idleSleeps + 1
    /\ UNCHANGED <<pc, media_player, gpio, entered, initFailed, exitError, watch, held, fired, debounced>>
    /\ UNCHANGED <<uvars, cvars>>

\* KeyboardInterrupt delivered while main() is in its try body
Interrupt ==
    /\ pc \in {"setup_gpio", "setup_player", "loop"}
    /\ pc' = "finally"
    /\ last' = [Step("interrupt") EXCEPT !.logged = "info"]
    /\ UNCHANGED <<media_player, gpio, scanPos, passes, entered, initFailed, exitError>>
    /\ UNCHANGED <<passLog, watch, held, fired, debounced, idleSleeps>>
    /\ UNCHANGED <<uvars, cvars>>

\* the finally block: media_player.stop(); GPIO.cleanup(); log
Cleanup ==
    /\ pc = "finally"
    /\ pc' = "done"
    /\ IF media_player = Unbound
       THEN \* the name media_player was never assigned: evaluating it raises
            /\ exitError' = "UnboundLocalError"
            /\ last' = [Step("cleanup") EXCEPT !.failed = TRUE]
            /\ UNCHANGED <<media_player, gpio>>
       ELSE \E stopOk \in BOOLEAN :
            IF stopOk
            THEN /\ media_player' = PlayerStop(media_player)
                 /\ gpio' = [gpio EXCEPT !.released = TRUE]
                 /\ exitError' = exitError
                 /\ last' = [Step("cleanup") EXCEPT !.calls = <<Call("stop", "")>>,
                                                    !.logged = "info"]
            ELSE /\ exitError' = "PlayerError"
                 /\ last' = [Step("cleanup") EXCEPT !.calls = <<Call("stop", "")>>,
                                                    !.failed = TRUE]
                 /\ UNCHANGED <<media_player, gpio>>
    /\ UNCHANGED <<scanPos, passes, entered, initFailed>>
    /\ UNCHANGED <<passLog, watch, held, fired, debounced, idleSleeps>>
    /\ UNCHANGED <<uvars, cvars>>

\* ------------------------------------------------------ filesystem model
\* A directory is a function from the names of its entries to nodes.  A node is
\* a regular file (its bytes abstracted to a number, 0 for a truncated file),
\* a directory of files, or a special file (neither isfile nor isdir).
Names == {"a", "b"}

InnerNames == {"x"}

Data == {1, 2}

DestData == {0} \cup Data

NoEntries == [n \in {} |-> 0]

File(d) == [kind |-> "file", data |-> d, entries |-> NoEntries]

Dir(e) == [kind |-> "dir", data |-> 0, entries |-> e]

Other == [kind |-> "other", data |-> 0, entries |-> NoEntries]

Absent == [kind |-> "absent", data |-> 0, entries |-> NoEntries]

\* the empty directory
NoTree == [n \in {} |-> Absent]

PartialFns(D, V) == UNION {[S -> V] : S \in SUBSET D}

SrcNodes == {File(d) : d \in Data} \cup {Dir(e) : e \in PartialFns(InnerNames, Data)} \cup {Other}

DstNodes == {File(d) : d \in DestData} \cup {Dir(e) : e \in PartialFns(InnerNames, DestData)} \cup {Other}

SrcDirs == PartialFns(Names, SrcNodes)

DstDirs == PartialFns(Names, DstNodes)

\* directory dir with entry name set to node
Put(dir, name, node) ==
    [n \in (DOMAIN dir) \cup {name} |-> IF n = name THEN node ELSE dir[n]]

\* an existence test that never finds the destination entry
path_exists_never(dst, item) == FALSE

\* an existence test that only finds regular files (isfile in place of exists)
path_exists_fileOnly(dst, item) == item \in DOMAIN dst /\ dst[item].kind = "file"

\* os.path.exists(os.path.join(dst, item))
path_exists(dst, item) == item \in DOMAIN dst

\* os.path.isfile / os.path.isdir of a source entry
isfile(node) == node.kind = "file"

isdir(node) == node.kind = "dir"

\* shutil.copy2(src_path, dst_path): dst_path becomes a file with the source's bytes
copy2(node, dst, item) == Put(dst, item, File(node.data))

\* a directory copy that creates the directory and leaves it empty
copytree_shallow(node, dst, item) == Put(dst, item, Dir(NoEntries))

\* shutil.copytree(src_path, dst_path, dirs_exist_ok=True): every nested entry
\* is copied into dst_path, which is created if missing and merged into if it
\* is already a directory
copytree(node, dst, item) ==
    LET prior == IF item \in DOMAIN dst /\ dst[item].kind = "dir"
                 THEN dst[item].entries ELSE NoEntries
        merged == [n \in (DOMAIN prior) \cup (DOMAIN node.entries) |->
                     IF n \in DOMAIN node.entries THEN node.entries[n] ELSE prior[n]]
    IN  Put(dst, item, Dir(merged))

\* what a copy of node that raises part-way can leave at the destination path
Leftovers(node) ==
    IF isfile(node)
    THEN {Absent, File(0), File(node.data)}
    ELSE {Absent} \cup
         {Dir(g) : g \in UNION {{h \in [S -> DestData] : \A n \in S : h[n] \in {0, node.entries[n]}}
                                 : S \in SUBSET DOMAIN node.entries}}

\* the entries of src whose copy can raise, given dst
Copyable(src, dst) ==
    {n \in DOMAIN src : ~path_exists(dst, n) /\ (isfile(src[n]) \/ isdir(src[n]))}

NoFault == [at |-> "none", left |-> Absent]

\* the faults that can strike copy_files(src, dst): os.listdir raises, or the
\* copy of one entry raises leaving something partial behind
Faults(src, dst) ==
    {NoFault, [at |-> "listdir", left |-> Absent]} \cup
    UNION {{[at |-> n, left |-> l] : l \in Leftovers(src[n])} : n \in Copyable(src, dst)}

\* os.listdir returns the names in arbitrary order
Listings(src) ==
    {o \in UNION {[1..k -> DOMAIN src] : k \in {Cardinality(DOMAIN src)}} :
        \A i, j \in DOMAIN o : i # j => o[i] # o[j]}

\* a loop that returns after the first listed item
CopyLoop_firstOnly(src, dst, order, fault, done) ==
    IF order = <<>>
    THEN [dst |-> dst, raised |-> FALSE, done |-> done, skipped |-> {}]
    ELSE LET item == Head(order) IN
         IF path_exists(dst, item)
         THEN [dst |-> dst, raised |-> FALSE, done |-> done, skipped |-> {item}]
         ELSE IF item = fault.at /\ (isfile(src[item]) \/ isdir(src[item]))
         THEN [dst |-> IF fault.left = Absent THEN dst ELSE Put(dst, item, fault.left),
               raised |-> TRUE, done |-> done, skipped |-> {}]
         ELSE IF isfile(src[item])
         THEN [dst |-> copy2(src[item], dst, item), raised |-> FALSE,
               done |-> done \cup {item}, skipped |-> {}]
         ELSE IF isdir(src[item])
         THEN [dst |-> copytree(src[item], dst, item), raised |-> FALSE,
               done |-> done \cup {item}, skipped |-> {}]
         ELSE [dst |-> dst, raised |-> FALSE, done |-> done, skipped |-> {}]

\* the for loop of copy_files over the listed items
RECURSIVE CopyLoop(_, _, _, _, _)
CopyLoop(src, dst, order, fault, done) ==
    IF order = <<>>
    THEN [dst |-> dst, raised |-> FALSE, done |-> done, skipped |-> {}]
    ELSE LET item == Head(order)
             rest == Tail(order)
         IN  IF path_exists(dst, item)
             THEN LET r == CopyLoop(src, dst, rest, fault, done)
                  IN  [r EXCEPT !.skipped = @ \cup {item}]
             ELSE IF item = fault.at /\ (isfile(src[item]) \/ isdir(src[item]))
             THEN [dst |-> IF fault.left = Absent THEN dst ELSE Put(dst, item, fault.left),
                   raised |-> TRUE, done |-> done, skipped |-> {}]
             ELSE IF isfile(src[item])
             THEN CopyLoop(src, copy2(src[item], dst, item), rest, fault, done \cup {item})
             ELSE IF isdir(src[item])
             THEN CopyLoop(src, copytree(src[item], dst, item), rest, fault, done \cup {item})
             ELSE CopyLoop(src, dst, rest, fault, done)

\* copy_files without the except clause: the error reaches the caller
copy_files_uncaught(src, dst, order, fault) ==
    LET r == IF fault.at = "listdir"
             THEN [dst |-> dst, raised |-> TRUE, done |-> {}, skipped |-> {}]
             ELSE CopyLoop(src, dst, order, fault, {})
    IN  [dst |-> r.dst, failed |-> r.raised, done |-> r.done, skipped |-> r.skipped,
         logged |-> FALSE, raised |-> r.raised]

\* copy_files(src, dst): the try body, and the except clause that prints the
\* error and returns
copy_files(src, dst, order, fault) ==
    LET r == IF fault.at = "listdir"
             THEN [dst |-> dst, raised |-> TRUE, done |-> {}, skipped |-> {}]
             ELSE CopyLoop(src, dst, order, fault, {})
    IN  [dst |-> r.dst, failed |-> r.raised, done |-> r.done, skipped |-> r.skipped,
         logged |-> r.raised, raised |-> FALSE]

\* ------------------------------------------------ copy_files on any input
NoResult == [failed |-> FALSE, done |-> {}, skipped |-> {}, logged |-> FALSE,
             raised |-> FALSE, fault |-> NoFault]

CopyCall ==
    /\ cpc = "ready"
    /\ \E order \in Listings(cSrc), fault \in Faults(cSrc, cDst) :
        LET r == copy_files(cSrc, cDst, order, fault) IN
        /\ cOut' = r.dst
        /\ cRes' = [failed |-> r.failed, done |-> r.done, skipped |-> r.skipped,
                    logged |-> r.logged, raised |-> r.raised, fault |-> fault]
    /\ cpc' = "returned"
    /\ UNCHANGED <<cSrc, cDst>>
    /\ UNCHANGED <<dvars, uvars>>

\* ------------------------------------------------------- ingest watcher
NumDevices == 2

MaxEvents == 1

DEST_DIR == "/home/apex"

None == "None"

Mounts == {"/media/usb0", "/media/usb1"}

Device == [ID_BUS : {"usb", "ata"}, MEDIA_MNT : {None} \cup Mounts]

Event == [ID_BUS : {"usb", "ata"}, action : {"add", "remove"},
          MEDIA_MNT : {None} \cup Mounts]

\* truth value of a property value in an if
Truthy(v) == v # None /\ v # ""

\* get_mount_point(device)
get_mount_point(device) == device.MEDIA_MNT

\* a scan condition that forgets the bus
ScanEligible_anyBus(device) == Truthy(device.MEDIA_MNT)

\* the condition of the startup scan on a listed device
ScanEligible(device) == device.ID_BUS = "usb" /\ Truthy(device.MEDIA_MNT)

\* an event condition that forgets the bus
EventEligible_anyBus(device) == device.action = "add"

\* an event condition that reacts to removals instead of arrivals
EventEligible_remove(device) == device.ID_BUS = "usb" /\ device.action = "remove"

\* the condition of the event loop on a polled device
EventEligible(device) == device.ID_BUS = "usb" /\ device.action = "add"

\* what the volume mounted at each mount point holds, and what DEST_DIR can
\* hold at startup
Volumes ==
    [m \in Mounts |->
        IF m = "/media/usb0"
        THEN [n \in {"a"} |-> File(1)]
        ELSE [n \in Names |-> IF n = "a" THEN File(2) ELSE Dir([x \in InnerNames |-> 1])]]

DestStart == {NoTree, [n \in {"a"} |-> File(0)]}

UStep(op) == [op |-> op, dev |-> 0, bus |-> "", action |-> "", mnt |-> None,
              trace |-> <<>>, src |-> None, dst |-> None, before |-> NoTree,
              failed |-> FALSE, logged |-> FALSE, done |-> {}, skipped |-> {},
              again |-> FALSE]

\* the call copy_files(mount_point, DEST_DIR) as made from main(): its effect
\* on DEST_DIR and on the caller
CallCopy(step, mount_point, next) ==
    \E order \in Listings(vol[mount_point]), fault \in Faults(vol[mount_point], dest) :
        LET r == copy_files(vol[mount_point], dest, order, fault) IN
        /\ dest' = r.dst
        /\ scanLog' = IF step.op = "scan"
                       THEN Append(scanLog, [dev |-> step.dev, src |-> mount_point,
                                             dst |-> DEST_DIR])
                       ELSE scanLog
        /\ copiedOk' = IF r.failed THEN copiedOk ELSE copiedOk \cup {mount_point}
        /\ upc' = IF r.raised THEN "crashed" ELSE next
        /\ ulast' = [step EXCEPT !.trace = @ \o <<"copy_files">>,
                                 !.src = mount_point, !.dst = DEST_DIR, !.before = dest,
                                 !.failed = r.failed, !.logged = r.logged,
                                 !.done = r.done, !.skipped = r.skipped,
                                 !.again = mount_point \in copiedOk]

\* one iteration of the startup for loop over context.list_devices(...)
ScanDevice ==
    /\ upc = "scan"
    /\ scanIdx <= Len(devices)
    /\ LET device == devices[scanIdx]
           step == [UStep("scan") EXCEPT !.dev = scanIdx, !.bus = device.ID_BUS,
                                         !.mnt = device.MEDIA_MNT]
       IN  IF ScanEligible(device)
           THEN LET mount_point == get_mount_point(device)
                    got == [step EXCEPT !.trace = <<"get_mount_point">>]
                IN  IF Truthy(mount_point)
                    THEN CallCopy(got, mount_point, "scan")
                    ELSE /\ ulast' = got
                         /\ UNCHANGED <<dest, scanLog, copiedOk, upc>>
           ELSE /\ ulast' = step
                /\ UNCHANGED <<dest, scanLog, copiedOk, upc>>
    /\ scanIdx' = scanIdx + 1
    /\ UNCHANGED <<vol, devices, nEvents>>
    /\ UNCHANGED <<dvars, cvars>>

\* the startup loop is exhausted: main() starts iterating monitor.poll
StartMonitor ==
    /\ upc = "scan"
    /\ scanIdx > Len(devices)
    /\ upc' = "events"
    /\ ulast' = UStep("monitor")
    /\ UNCHANGED <<vol, devices, scanIdx, nEvents, dest, scanLog, copiedOk>>
    /\ UNCHANGED <<dvars, cvars>>

\* one iteration of the event loop: monitor.poll returns a device
HandleEvent ==
    /\ upc = "events"
    /\ nEvents < MaxEvents
    /\ nEvents' = nEvents + 1
    /\ \E device \in Event :
        LET step == [UStep("event") EXCEPT !.dev = nEvents + 1, !.bus = device.ID_BUS,
                                           !.action = device.action,
                                           !.mnt = device.MEDIA_MNT]
        IN  IF EventEligible(device)
            THEN LET mount_point == get_mount_point(device)
                     got == [step EXCEPT !.trace = <<"sleep", "get_mount_point">>]
                 IN  IF Truthy(mount_point)
                     THEN CallCopy(got, mount_point, "events")
                     ELSE /\ ulast' = got
                          /\ UNCHANGED <<dest, scanLog, copiedOk, upc>>
            ELSE /\ ulast' = step
                 /\ UNCHANGED <<dest, scanLog, copiedOk, upc>>
    /\ UNCHANGED <<vol, devices, scanIdx>>
    /\ UNCHANGED <<dvars, cvars>>

\* ------------------------------------------------------- specifications
Next ==
    \/ SetupGpio
    \/ SetupMediaPlayer
    \/ ReadPin
    \/ IdleSleep
    \/ Interrupt
    \/ Cleanup

NextWatcher ==
    \/ ScanDevice
    \/ StartMonitor
    \/ HandleEvent

\* ------------------------------------------- claims: button dispatcher
IsPrefix(a, b) == Len(a) <= Len(b) /\ \A i \in 1..Len(a) : a[i] = b[i]

\* C1: once the main loop has been entered, every exit ends with the player's
\* stop() called and GPIO.cleanup() performed, the release also when that
\* stop() fails.
C1_CleanupOnEveryExit ==
    (pc = "done" /\ entered) =>
        (last.op = "cleanup" /\ last.calls = <<Call("stop", "")>> /\ gpio.released)

\* C2: when setup_gpio or setup_media_player raises, the process exits without
\* entering the main loop and GPIO.cleanup() is still performed during cleanup.
C2_InitFailureStillReleases ==
    (pc = "done" /\ initFailed) => (~entered /\ scanPos = 1 /\ gpio.released)

\* the action each input is wired to
BoundAction(pin) ==
    CASE pin = 13 -> [kind |-> "play_video", arg |-> "/home/pi/Videos/1.mp4"]
      [] pin = 19 -> [kind |-> "play_video", arg |-> "/home/pi/Videos/2.mp4"]
      [] pin = 26 -> [kind |-> "play_video", arg |-> "/home/pi/Videos/3.mp4"]
      [] pin = 21 -> [kind |-> "play_video", arg |-> "/home/pi/Videos/4.mp4"]
      [] pin = 20 -> [kind |-> "pause", arg |-> ""]
      [] pin = 16 -> [kind |-> "stop", arg |-> ""]

\* the player calls that belong to an action
CallsOf(kind, arg) ==
    CASE kind = "play_video" -> <<Call("stop", ""), Call("set_media", arg), Call("play", "")>>
      [] kind = "pause" -> <<Call("pause", "")>>
      [] kind = "stop" -> <<Call("stop", "")>>

\* C3: an input read as pressed (LOW) invokes exactly the action bound to it
\* (load-and-play of its own path, pause, or stop) and no other action; an
\* input read as not pressed (HIGH) invokes nothing.
C3_PressedInvokesBoundAction ==
    (last.op = "read" /\ last.level # "error") =>
        IF last.level = "LOW"
        THEN /\ last.pin \in {13, 19, 26, 21, 20, 16}
             /\ last.action = BoundAction(last.pin).kind
             /\ last.arg = BoundAction(last.pin).arg
             /\ last.calls # <<>>
             /\ IsPrefix(last.calls, CallsOf(BoundAction(last.pin).kind,
                                              BoundAction(last.pin).arg))
        ELSE last.action = "none" /\ last.calls = <<>>

C3_Witness ==
    /\ last.op = "read" /\ last.level = "LOW" /\ last.pin = 16
    /\ last.calls = <<Call("stop", "")>> /\ last.before = "playing"

\* C4 as stated: every load-and-play dispatch calls stop(), set_media(path),
\* play() on the player, in that order.
C4_AlwaysStopLoadPlay ==
    (last.op = "read" /\ last.action = "play_video") =>
        last.calls = CallsOf("play_video", last.arg)

\* C4 amended: the player calls of a load-and-play dispatch are stop(),
\* set_media(path), play() in that order, starting with stop() whatever the
\* prior player state; all three are made unless one of the statements raises,
\* which ends the sequence there.
C4_StopLoadPlayUnlessFailed ==
    (last.op = "read" /\ last.action = "play_video") =>
        /\ last.calls # <<>>
        /\ last.calls[1] = Call("stop", "")
        /\ IsPrefix(last.calls, CallsOf("play_video", last.arg))
        /\ (~last.failed => last.calls = CallsOf("play_video", last.arg))
        /\ (last.failed => pc = "loop")

C4_Witness ==
    /\ last.op = "read" /\ last.action = "play_video" /\ ~last.failed
    /\ last.before = "paused"
    /\ last.calls = CallsOf("play_video", "/home/pi/Videos/2.mp4")

\* C5: a player call that fails while dispatching load-and-play, pause or stop
\* is logged and the main loop continues.
C5_PlaybackErrorRecoverable ==
    (last.op = "read" /\ last.level = "LOW" /\ last.failed) =>
        (pc = "loop" /\ last.logged = "error")

\* C11: a held button re-fires: an input read LOW in each of n consecutive
\* passes has its action dispatched exactly n times, once per pass, and each
\* of these dispatches is followed by the debounce sleep.
C11_HeldButtonRefires ==
    /\ fired = held
    /\ debounced = fired

\* C12: dispatching pause or stop makes the one player call pause() or stop()
\* and nothing else: no set_media, no play, and the media loaded in the player
\* is the one that was loaded before.
C12_PauseStopNeverLoad ==
    (last.op = "read" /\ last.level = "LOW" /\ last.pin \in {20, 16}) =>
        /\ last.calls = IF last.pin = 20 THEN <<Call("pause", "")>> ELSE <<Call("stop", "")>>
        /\ \A i \in 1..Len(last.calls) : last.calls[i].fn \notin {"set_media", "play"}
        /\ media_player.media = last.beforeMedia

C12_Witness ==
    /\ last.op = "read" /\ last.level = "LOW" /\ last.pin = 16 /\ ~last.failed
    /\ last.before = "paused"
    /\ media_player.media = "/home/pi/Videos/3.mp4"
    /\ media_player.status = "idle"

\* the BUTTON_PINS value expected for an input
BoundValue(pin) ==
    IF BoundAction(pin).kind = "play_video" THEN BoundAction(pin).arg ELSE BoundAction(pin).kind

C15_DebounceAfterEveryDispatch ==
    /\ (last.op = "read" /\ last.level = "LOW") => last.slept = "debounce"
    /\ (last.op = "read" /\ last.level = "HIGH") => last.slept = "none"
    /\ \A i \in 1..Len(passLog) :
         passLog[i].slept = IF passLog[i].level = "LOW" THEN "debounce" ELSE "none"
    /\ idleSleeps = passes
    /\ (last.op = "idle" => last.slept = "idle" /\ scanPos = 1)

\* ---------------------------------------------- claims: ingest watcher
\* C6: copy_files leaves untouched every direct entry of the source whose name
\* already exists under the destination: no overwrite of a file, no merge into
\* a directory, whatever the source holds under that name.
C6_ExistingEntriesUntouched ==
    cpc = "returned" =>
        \A n \in (DOMAIN cSrc) \cap (DOMAIN cDst) : n \in DOMAIN cOut /\ cOut[n] = cDst[n]

C6_Witness ==
    /\ cpc = "returned" /\ ~cRes.failed
    /\ "a" \in DOMAIN cDst /\ "a" \in DOMAIN cSrc
    /\ cSrc["a"] = Dir([x \in InnerNames |-> 1]) /\ cDst["a"] = Dir(NoEntries)
    /\ cOut["a"] = Dir(NoEntries)
    /\ "b" \notin DOMAIN cDst /\ "b" \in DOMAIN cOut

\* C7 as stated: after copy_files returns, every direct entry that was present
\* only in the source has an identical copy under the destination.
C7_SourceOnlyCopied ==
    cpc = "returned" =>
        \A n \in (DOMAIN cSrc) \ (DOMAIN cDst) : n \in DOMAIN cOut /\ cOut[n] = cSrc[n]

\* C7 amended: after copy_files returns without having caught an error, every
\* direct entry that was present only in the source and is a regular file or a
\* directory has an identical copy under the destination (same bytes, equal
\* tree); an entry that is neither a file nor a directory is not copied.
C7_SourceOnlyCopiedUnlessFailed ==
    (cpc = "returned" /\ ~cRes.failed) =>
        \A n \in (DOMAIN cSrc) \ (DOMAIN cDst) :
            IF cSrc[n].kind \in {"file", "dir"}
            THEN n \in DOMAIN cOut /\ cOut[n] = cSrc[n]
            ELSE n \notin DOMAIN cOut

C7_Witness ==
    /\ cpc = "returned" /\ ~cRes.failed
    /\ cDst = NoTree
    /\ "a" \in DOMAIN cSrc /\ cSrc["a"] = File(2)
    /\ "b" \in DOMAIN cSrc /\ cSrc["b"] = Dir([x \in InnerNames |-> 1])
    /\ cOut = cSrc

\* C8: a failure during copy_files (listing the source, copying a file or a
\* directory) does not reach the caller: it is logged, copy_files returns,
\* what was copied before the failure stays, nothing that was under the
\* destination is touched, and the watcher goes on with the next listed
\* device or the next event.
C8_CopyFailureContained ==
    ulast.failed =>
        /\ upc # "crashed"
        /\ ulast.logged
        /\ \A n \in ulast.done : n \in DOMAIN dest /\ dest[n] = vol[ulast.src][n]
        /\ \A n \in DOMAIN ulast.before : n \in DOMAIN dest /\ dest[n] = ulast.before[n]
        /\ (ulast.op = "scan" => upc = "scan" /\ scanIdx = ulast.dev + 1)
        /\ (ulast.op = "event" => upc = "events" /\ nEvents = ulast.dev)
        /\ (nEvents < MaxEvents => ENABLED NextWatcher)

C8_Witness ==
    /\ ulast.failed /\ ulast.op = "scan" /\ ulast.done # {}
    /\ scanIdx <= Len(devices)
    /\ ENABLED ScanDevice

\* C9 as stated: for every event of a USB-bus-attached device whose action is
\* 'add', the watcher waits the settle delay and then calls copy_files on the
\* device's mount point with the fixed destination.
C9_ArrivalAlwaysCopies ==
    (ulast.op = "event" /\ ulast.bus = "usb" /\ ulast.action = "add") =>
        /\ ulast.trace = <<"sleep", "get_mount_point", "copy_files">>
        /\ ulast.src = ulast.mnt
        /\ ulast.dst = DEST_DIR

\* C9 amended: for every event of a USB-bus-attached device whose action is
\* 'add', the watcher waits the settle delay and then, if the device has a
\* mount point, calls copy_files on that mount point with the fixed
\* destination; if it has none, no copy is made for the event.
C9_ArrivalCopiesIfMounted ==
    (ulast.op = "event" /\ ulast.bus = "usb" /\ ulast.action = "add") =>
        /\ ulast.trace # <<>> /\ ulast.trace[1] = "sleep"
        /\ IF ulast.mnt \in Mounts
           THEN /\ ulast.trace = <<"sleep", "get_mount_point", "copy_files">>
                /\ ulast.src = ulast.mnt
                /\ ulast.dst = "/home/apex"
                /\ ulast.dev = nEvents
           ELSE /\ ulast.trace = <<"sleep", "get_mount_point">>
                /\ ulast.src = None /\ ulast.dst = None

C9_Witness ==
    /\ ulast.op = "event" /\ ulast.bus = "usb" /\ ulast.action = "add"
    /\ ulast.mnt = "/media/usb1" /\ ulast.src = "/media/usb1"
    /\ ~ulast.failed /\ dest # ulast.before

\* the copy_files calls of the startup scan made for listed device i
ScanCallsFor(i) == {k \in 1..Len(scanLog) : scanLog[k].dev = i}

\* C10: the startup scan calls copy_files exactly once for each listed
\* partition that is USB-bus-attached and has a mount point, for no other
\* partition, and all of these calls are made before the first event is
\* consumed.
C10_StartupScanOncePerUsbVolume ==
    /\ \A i \in 1..Len(devices) :
         IF i < scanIdx /\ devices[i].ID_BUS = "usb" /\ devices[i].MEDIA_MNT \in Mounts
         THEN /\ Cardinality(ScanCallsFor(i)) = 1
              /\ \A k \in ScanCallsFor(i) :
                   scanLog[k].src = devices[i].MEDIA_MNT /\ scanLog[k].dst = "/home/apex"
         ELSE ScanCallsFor(i) = {}
    /\ \A k \in 1..Len(scanLog) : scanLog[k].dev \in 1..Len(devices)
    /\ (nEvents > 0 \/ upc = "events") => scanIdx = Len(devices) + 1
    /\ ulast.op = "event" => nEvents > 0

C10_Witness ==
    /\ upc = "events" /\ nEvents = 1 /\ Len(devices) = 2
    /\ devices[1].ID_BUS = "usb" /\ devices[1].MEDIA_MNT = "/media/usb0"
    /\ devices[2].ID_BUS = "ata" /\ devices[2].MEDIA_MNT = "/media/usb1"
    /\ Len(scanLog) = 1 /\ scanLog[1].dev = 1
    /\ ulast.op = "event" /\ ulast.src = "/media/usb1"

\* C13: the startup scan and the event path call copy_files in the same
\* shape, copy_files(mount point of the volume, DEST_DIR), and the call is
\* idempotent: once a copy of a volume has completed without error, a further
\* copy of the same unchanged volume, from either path, changes nothing under
\* the destination.
C13_SameShapeAndIdempotent ==
    /\ ("copy_files" \in {ulast.trace[i] : i \in 1..Len(ulast.trace)}) =>
         /\ ulast.op \in {"scan", "event"}
         /\ ulast.src = ulast.mnt
         /\ ulast.src \in Mounts
         /\ ulast.dst = "/home/apex"
    /\ ulast.again => dest = ulast.before

C13_Witness ==
    /\ ulast.op = "event" /\ ulast.again /\ ~ulast.failed
    /\ ulast.src = "/media/usb1"
    /\ scanLog # <<>> /\ scanLog[1].src = "/media/usb1"
    /\ "b" \in DOMAIN dest /\ dest["b"] = vol["/media/usb1"]["b"]
    /\ ulast.skipped = {"a", "b"}

\* C16: over any sequence of copy_files calls a top-level entry of DEST_DIR,
\* once it exists, is never written again, also when it is a directory left
\* partial by an earlier failed copy: a later copy of that volume skips it.
C16_ExistingEntriesNeverRewritten ==
    [][\A n \in DOMAIN dest : n \in DOMAIN dest' /\ dest'[n] = dest[n]]_vars

C16_Witness ==
    /\ ulast.src = "/media/usb1" /\ ~ulast.failed
    /\ "b" \in ulast.skipped
    /\ "b" \in DOMAIN dest /\ dest["b"] = Dir(NoEntries)
    /\ vol["/media/usb1"]["b"] # Dir(NoEntries)
    /\ "b" \in DOMAIN ulast.before /\ ulast.before["b"] = Dir(NoEntries)

\* C17: an event whose device is not USB-bus-attached, whose action is not
\* 'add', or whose device has no mount point never leads to a copy_files call
\* and leaves DEST_DIR unchanged; the event is consumed and the loop goes on.
C17_IneligibleEventsCopyNothing ==
    [][(/\ nEvents' = nEvents + 1
        /\ \/ ulast'.bus # "usb"
           \/ ulast'.action # "add"
           \/ ulast'.mnt \notin Mounts)
       => /\ dest' = dest
          /\ "copy_files" \notin {ulast'.trace[i] : i \in 1..Len(ulast'.trace)}
          /\ ulast'.src = None
          /\ ulast'.op = "event"
          /\ upc' = "events"]_vars

C17_Witness ==
    /\ ulast.op = "event" /\ ulast.bus = "usb" /\ ulast.action = "remove"
    /\ ulast.mnt = "/media/usb0" /\ ulast.src = None
    /\ nEvents = 1 /\ upc = "events"
    /\ dest = [n \in {"a"} |-> File(0)]

\* the button dispatcher, from the start of main()
Init ==
    /\ pc = "setup_gpio"
    /\ media_player = Unbound
    /\ gpio = [configured |-> FALSE, released |-> FALSE]
    /\ scanPos = 1
    /\ passes = 0
    /\ entered = FALSE
    /\ initFailed = FALSE
    /\ exitError = "none"
    /\ last = Step("start")
    /\ passLog = <<>>
    /\ watch \in Pins
    /\ held = 0
    /\ fired = 0
    /\ debounced = 0
    /\ idleSleeps = 0
    /\ upc = "scan"
    /\ vol = [m \in Mounts |-> NoTree]
    /\ devices = <<>>
    /\ scanIdx = 1
    /\ nEvents = 0
    /\ dest = NoTree
    /\ scanLog = <<>>
    /\ copiedOk = {}
    /\ ulast = UStep("start")
    /\ cpc = "ready"
    /\ cSrc = NoTree
    /\ cDst = NoTree
    /\ cOut = NoTree
    /\ cRes = NoResult

Spec == Init /\ [][Next]_vars

\* the ingest watcher, from the start of main(): any listed devices, any
\* volume contents, DEST_DIR as found
InitWatcher ==
    /\ pc = "setup_gpio"
    /\ media_player = Unbound
    /\ gpio = [configured |-> FALSE, released |-> FALSE]
    /\ scanPos = 1
    /\ passes = 0
    /\ entered = FALSE
    /\ initFailed = FALSE
    /\ exitError = "none"
    /\ last = Step("start")
    /\ passLog = <<>>
    /\ watch = PinOrder[1]
    /\ held = 0
    /\ fired = 0
    /\ debounced = 0
    /\ idleSleeps = 0
    /\ upc = "scan"
    /\ vol = Volumes
    /\ devices \in UNION {[1..k -> Device] : k \in 0..NumDevices}
    /\ scanIdx = 1
    /\ nEvents = 0
    /\ dest \in DestStart
    /\ scanLog = <<>>
    /\ copiedOk = {}
    /\ ulast = UStep("start")
    /\ cpc = "ready"
    /\ cSrc = NoTree
    /\ cDst = NoTree
    /\ cOut = NoTree
    /\ cRes = NoResult

SpecWatcher == InitWatcher /\ [][NextWatcher]_vars

\* copy_files applied once to any source and any destination
InitCopy ==
    /\ pc = "setup_gpio"
    /\ media_player = Unbound
    /\ gpio = [configured |-> FALSE, released |-> FALSE]
    /\ scanPos = 1
    /\ passes = 0
    /\ entered = FALSE
    /\ initFailed = FALSE
    /\ exitError = "none"
    /\ last = Step("start")
    /\ passLog = <<>>
    /\ watch = PinOrder[1]
    /\ held = 0
    /\ fired = 0
    /\ debounced = 0
    /\ idleSleeps = 0
    /\ upc = "scan"
    /\ vol = [m \in Mounts |-> NoTree]
    /\ devices = <<>>
    /\ scanIdx = 1
    /\ nEvents = 0
    /\ dest = NoTree
    /\ scanLog = <<>>
    /\ copiedOk = {}
    /\ ulast = UStep("start")
    /\ cpc = "ready"
    /\ cSrc \in SrcDirs
    /\ cDst \in DstDirs
    /\ cOut = cDst
    /\ cRes = NoResult

NextCopy == CopyCall

SpecCopy == InitCopy /\ [][NextCopy]_vars

====
